---- MODULE Spec2Model ----
(***************************************************************************)
(* A model of src/src/lib.rs: PriorityQueueImpl, a priority queue kept in  *)
(* a BTreeMap<CustomQueueEntry, Element>.  The key of an entry is          *)
(* CustomQueueEntry { priority, index }, ordered by priority and then by   *)
(* index; insert builds the key from the priority and the current number   *)
(* of entries of the map.                                                  *)
(***************************************************************************)
EXTENDS Integers, Sequences, FiniteSets, TLC

\* ------------------------------------------------------------------ bounds

\* Number of insert calls one behaviour makes.
MaxInserts == 4

\* Priorities are drawn from 1..MaxPriority (u64 in the source; the code
\* only compares them).
MaxPriority == 3

Priorities == 1..MaxPriority

\* The generic Element type.  Element has no trait bound, so the code can
\* neither compare nor inspect an element: the caller's n-th insert hands
\* over the value named n, and every stored element tells which call gave it.
Elements == 1..MaxInserts

\* Option<T>: None is the empty tuple, Some(x) the one-element tuple.
None == <<>>

Some(x) == <<x>>

\* ------------------------------------------------- the key and the store

\* struct CustomQueueEntry { priority: u64, index: usize }
CustomQueueEntry == [priority : Priorities, index : 0..MaxInserts]

\* CustomQueueEntry::new(index, priority)
CustomQueueEntry_new(index, priority) == [priority |-> priority, index |-> index]

\* KeyLess with the tie broken the other way (a smaller index is the
\* greater key), as a hand-written Ord that reverses the index would.
KeyLess_indexReversed(a, b) ==
    \/ a.priority < b.priority
    \/ a.priority = b.priority /\ a.index > b.index

\* #[derive(PartialOrd, Ord)]: lexicographic in the order the fields are
\* declared, priority first, index second.
KeyLess(a, b) ==
    \/ a.priority < b.priority
    \/ a.priority = b.priority /\ a.index < b.index

\* BTreeMap::new()
EmptyMap == [k \in {} |-> None]

\* BTreeMap::len
MapLen(d) == Cardinality(DOMAIN d)

\* BTreeMap::insert: a key already in the map keeps its place and has its
\* value replaced; the old value is returned (and dropped by the caller).
MapInsert(d, k, v) == [x \in (DOMAIN d) \cup {k} |-> IF x = k THEN v ELSE d[x]]

\* BTreeMap::remove: the map without the key
MapRemove(d, k) == [x \in (DOMAIN d) \ {k} |-> d[x]]

\* BTreeMap::remove: the value returned, Some(old value) or None
MapRemoved(d, k) == IF k \in DOMAIN d THEN Some(d[k]) ELSE None

\* MaxKey taking the first entry of the iteration (next() for next_back()):
\* the least key.
MaxKey_first(d) == CHOOSE k \in DOMAIN d : \A j \in DOMAIN d : j = k \/ KeyLess(k, j)

\* The greatest key of a non-empty map under Ord for CustomQueueEntry.
MaxKey(d) == CHOOSE k \in DOMAIN d : \A j \in DOMAIN d : j = k \/ KeyLess(j, k)

\* self.data.iter().next_back(): Some((key, value)) of the entry with the
\* greatest key, None on an empty map.
NextBack(d) ==
    IF DOMAIN d = {} THEN None ELSE Some(<<MaxKey(d), d[MaxKey(d)]>>)

\* ----------------------------------------------- PriorityQueueImpl, pure

\* PriorityQueueImpl::new
new == EmptyMap

\* PriorityQueueImpl::len
len(d) == MapLen(d)

\* is_empty answering the opposite.
is_empty_negated(d) == DOMAIN d # {}

\* PriorityQueueImpl::is_empty (BTreeMap::is_empty)
is_empty(d) == DOMAIN d = {}

\* PriorityQueueImpl::peek: next_back().map(|(_, v)| v.clone())
peek(d) == IF NextBack(d) = None THEN None ELSE Some(NextBack(d)[1][2])

\* insert_key with the arguments of CustomQueueEntry::new in the order of
\* the struct's fields (priority, index) instead of (index, priority).
insert_key_swapped(d, priority) == CustomQueueEntry_new(priority, len(d))

\* The key insert builds: CustomQueueEntry::new(self.data.len(), priority)
insert_key(d, priority) == CustomQueueEntry_new(len(d), priority)

\* PriorityQueueImpl::insert: the map after the call
insert(d, element, priority) == MapInsert(d, insert_key(d, priority), element)

\* PriorityQueueImpl::pop, line 72: let key = next_back().map(|(k, _)| *k)
pop_key(d) == IF NextBack(d) = None THEN None ELSE Some(NextBack(d)[1][1])

\* PriorityQueueImpl::pop, line 73: key.and_then(|k| self.data.remove(&k)),
\* the value returned
pop_value(d) == IF pop_key(d) = None THEN None ELSE MapRemoved(d, pop_key(d)[1])

\* The loop of from: vec.into_iter().for_each(|(p, v)| queue.insert(v, p))
RECURSIVE from_each(_, _)
from_each(queue, vec) ==
    IF vec = <<>> THEN queue
    ELSE from_each(insert(queue, vec[1][2], vec[1][1]), Tail(vec))

\* from walking the vector from its last pair to its first.
RECURSIVE from_backwards(_)
from_backwards(vec) ==
    IF vec = <<>> THEN new
    ELSE insert(from_backwards(Tail(vec)), vec[1][2], vec[1][1])

\* From<Vec<(u64, Element)>> for PriorityQueueImpl: the store of the queue
\* built from the (priority, element) pairs of vec.
from(vec) == from_each(new, vec)

\* pop removing every entry of the greatest priority (a removal by
\* priority instead of by key).
pop_tier(d) ==
    IF pop_key(d) = None THEN d
    ELSE [x \in {k \in DOMAIN d : k.priority # pop_key(d)[1].priority} |-> d[x]]

\* pop reading the entry (get) without removing it.
pop_keeps(d) == d

\* PriorityQueueImpl::pop, line 73: the map after the call
pop(d) == IF pop_key(d) = None THEN d ELSE MapRemove(d, pop_key(d)[1])

\* ------------------------------------------------------------------ state

VARIABLES
    data,     \* PriorityQueueImpl.data
    lastOp,   \* the call made last: "new", "insert", "peek" or "pop"
    result,   \* what the last peek or pop returned (None after new, insert)
    ins,      \* the insert calls so far, in order: the arguments, the key
              \* built, len() before and after, and the removals made before
    out,      \* the entries pop has removed so far, in order
    phase     \* "fill": no pop yet; "drain": pops, no insert after a pop;
              \* "mixed": some insert came after a pop

vars == <<data, lastOp, result, ins, out, phase>>

Init ==
    /\ data = new
    /\ lastOp = "new"
    /\ result = None
    /\ ins = <<>>
    /\ out = <<>>
    /\ phase = "fill"

\* queue.insert(element, priority)
Insert(element, priority) ==
    /\ Len(ins) < MaxInserts
    /\ element = Len(ins) + 1
    /\ data' = insert(data, element, priority)
    /\ lastOp' = "insert"
    /\ result' = None
    /\ ins' = Append(ins, [element  |-> element,
                            priority |-> priority,
                            key      |-> insert_key(data, priority),
                            before   |-> len(data),
                            after    |-> len(data'),
                            pops     |-> Len(out)])
    /\ phase' = IF phase = "fill" THEN "fill" ELSE "mixed"
    /\ UNCHANGED out

\* peek taking the last entry out of the map (pop_last) to read it.
Peek_removing ==
    /\ result' = peek(data)
    /\ lastOp' = "peek"
    /\ data' = pop(data)
    /\ UNCHANGED <<ins, out, phase>>

\* queue.peek()
Peek ==
    /\ result' = peek(data)
    /\ lastOp' = "peek"
    /\ UNCHANGED <<data, ins, out, phase>>

\* queue.pop()
Pop ==
    /\ data' = pop(data)
    /\ result' = pop_value(data)
    /\ lastOp' = "pop"
    /\ out' = IF pop_key(data) = None THEN out
              ELSE Append(out, [key |-> pop_key(data)[1], element |-> pop_value(data)[1]])
    /\ phase' = IF phase = "fill" THEN "drain" ELSE phase
    /\ UNCHANGED ins

Next ==
    \/ \E element \in Elements, priority \in Priorities : Insert(element, priority)
    \/ Peek
    \/ Pop

Spec == Init /\ [][Next]_vars

TypeOK ==
    /\ DOMAIN data \subseteq CustomQueueEntry
    /\ \A k \in DOMAIN data : data[k] \in Elements
    /\ lastOp \in {"new", "insert", "peek", "pop"}
    /\ result \in {Some(e) : e \in Elements} \cup {None}
    /\ phase \in {"fill", "drain", "mixed"}

\* --------------------------------------------------- reading the call log

\* The positions in ins of the insert calls that built key k.
InsertsOf(k) == {n \in 1..Len(ins) : ins[n].key = k}

\* The position in ins of the insert call that built key k (there is one
\* such call as long as no insert follows a pop).
InsPos(k) == CHOOSE n \in InsertsOf(k) : TRUE

\* The priorities of the entries popped so far never go up.
NonIncreasing(o) ==
    \A i, j \in 1..Len(o) : i < j => o[i].key.priority >= o[j].key.priority

\* ------------------------------------------------------------------- C1

\* C1: a queue filled by inserts only and then drained by pops (no insert
\* after a pop) yields entries that were inserted, each under the priority
\* its insert call gave, and their priorities are in non-increasing order.
C1_DrainNonIncreasing ==
    phase # "mixed" =>
        /\ NonIncreasing(out)
        /\ \A i \in 1..Len(out) :
              \E n \in 1..Len(ins) :
                  /\ ins[n].key = out[i].key
                  /\ ins[n].element = out[i].element
                  /\ ins[n].priority = out[i].key.priority

\* C1 witness: three inserts whose priorities are not already in order
\* have been drained to empty, and the priorities popped differ.
C1_Witness ==
    /\ phase = "drain"
    /\ Len(ins) = 3
    /\ Len(out) = 3
    /\ is_empty(data)
    /\ ins[1].priority < ins[2].priority
    /\ out[1].key.priority > out[3].key.priority

\* ------------------------------------------------------------------- C2

\* C2: every insert call, in any interleaving of insert and pop calls,
\* increases len() by exactly 1.
C2_InsertGrowsLen ==
    \A n \in 1..Len(ins) : ins[n].after = ins[n].before + 1

\* ------------------------------------------------------------------- C3

\* C3: in every reachable state the key insert would build is the key of
\* no live entry, and insert leaves every live entry in the store under
\* its key with its element.
C3_InsertKeyFresh ==
    \A element \in Elements, priority \in Priorities :
        /\ insert_key(data, priority) \notin DOMAIN data
        /\ \A k \in DOMAIN data :
              /\ k \in DOMAIN insert(data, element, priority)
              /\ insert(data, element, priority)[k] = data[k]

\* ------------------------------------------------------------------- C4

\* C4 as stated: in a queue filled by inserts only and then drained, of two
\* popped entries of equal priority the one inserted first is popped first.
C4_FifoWithinTier ==
    phase # "mixed" =>
        \A i, j \in 1..Len(out) :
            i < j /\ out[i].key.priority = out[j].key.priority
                => InsPos(out[i].key) < InsPos(out[j].key)

\* C4 amended: in a queue filled by inserts only and then drained, of two
\* popped entries of equal priority the one inserted LAST is popped first
\* (last-in-first-out within a priority tier).
C4_LifoWithinTier ==
    phase # "mixed" =>
        \A i, j \in 1..Len(out) :
            i < j /\ out[i].key.priority = out[j].key.priority
                => InsPos(out[i].key) > InsPos(out[j].key)

\* C4 witness: a queue filled with three entries, two of them of equal
\* priority and different elements, has been drained to empty.
C4_Witness ==
    /\ phase = "drain"
    /\ is_empty(data)
    /\ Len(ins) = 3
    /\ Len(out) = 3
    /\ \E i \in 1..2 :
          /\ out[i].key.priority = out[i + 1].key.priority
          /\ out[i].element # out[i + 1].element

\* ------------------------------------------------------------------- C5

\* The greatest priority given to the insert calls before the n-th.
MaxPriorityBefore(n) ==
    CHOOSE p \in {ins[m].priority : m \in 1..(n - 1)} :
        \A m \in 1..(n - 1) : ins[m].priority <= p

\* C5: while no pop has been made, after an insert whose priority equals
\* the greatest priority in the queue, peek returns the element just
\* inserted (the entry just built is the one peek and pop select), and of
\* two live entries of equal priority the later inserted has the greater
\* key, so it is served first.
C5_LatestEqualFirst ==
    phase = "fill" =>
        /\ Len(ins) >= 2 /\ ins[Len(ins)].priority = MaxPriorityBefore(Len(ins))
              => /\ peek(data) = Some(ins[Len(ins)].element)
                 /\ pop_key(data) = Some(ins[Len(ins)].key)
        /\ \A m, n \in 1..Len(ins) :
              m < n /\ ins[m].priority = ins[n].priority
                  => /\ {ins[m].key, ins[n].key} \subseteq DOMAIN data
                     /\ KeyLess(ins[m].key, ins[n].key)

\* C5 witness: two inserts of equal priority and different elements, no
\* pop, and a peek that returned the second element.
C5_Witness ==
    /\ phase = "fill"
    /\ lastOp = "peek"
    /\ Len(ins) = 2
    /\ ins[1].priority = ins[2].priority
    /\ ins[1].element # ins[2].element
    /\ result = Some(ins[2].element)

\* ------------------------------------------------------------------- C6

\* Key k is a greatest key of map d: greatest priority, then greatest index.
IsGreatest(d, k) ==
    /\ k \in DOMAIN d
    /\ \A j \in DOMAIN d :
          \/ j.priority < k.priority
          \/ j.priority = k.priority /\ j.index <= k.index

\* C6: in every reachable state peek and pop return nothing exactly when
\* the queue is empty, and otherwise both select the live entry with the
\* greatest key (greatest priority, then greatest index): they return its
\* element, pop removes it, and its priority is at least the priority of
\* every live entry; the entry the last pop call removed has a priority at
\* least that of every entry still live.
C6_MaxSelected ==
    /\ peek(data) = None <=> is_empty(data)
    /\ pop_value(data) = None <=> is_empty(data)
    /\ ~is_empty(data) =>
          \E k \in DOMAIN data :
              /\ IsGreatest(data, k)
              /\ \A j \in DOMAIN data : k.priority >= j.priority
              /\ peek(data) = Some(data[k])
              /\ pop_value(data) = Some(data[k])
              /\ pop_key(data) = Some(k)
              /\ DOMAIN pop(data) = (DOMAIN data) \ {k}
    /\ lastOp = "pop" /\ result # None =>
          /\ result = Some(out[Len(out)].element)
          /\ \A j \in DOMAIN data : out[Len(out)].key.priority >= j.priority
    /\ lastOp = "peek" =>
          /\ result = None <=> is_empty(data)
          /\ result # None => \E k \in DOMAIN data :
                                  IsGreatest(data, k) /\ result = Some(data[k])

\* C6 witness: a peek returned the element of the entry of greater
\* priority although an entry of smaller priority was inserted after it.
C6_Witness ==
    /\ lastOp = "peek"
    /\ \E j, k \in DOMAIN data :
          /\ j.priority < k.priority
          /\ j.index > k.index
          /\ data[j] # data[k]
          /\ result = Some(data[k])

\* ------------------------------------------------------------------- C7

\* C7: a peek call leaves the store as it was, a peek that follows a peek
\* returns what the first returned, and the pop that follows a peek
\* returns what the peek returned.
C7_PeekPure ==
    [][ /\ lastOp' = "peek" => data' = data
        /\ lastOp = "peek" /\ lastOp' = "peek" => result' = result
        /\ lastOp = "peek" /\ lastOp' = "pop" => result' = result ]_vars

\* C7 witness: a peek on a queue of at least two entries of different
\* elements has returned an element.
C7_Witness ==
    /\ lastOp = "peek"
    /\ result # None
    /\ len(data) >= 2
    /\ \E j, k \in DOMAIN data : data[j] # data[k]

\* ------------------------------------------------------------------- C8

\* C8: a pop call on a non-empty queue returns an element and takes
\* exactly 1 from len(); a pop call on an empty queue returns nothing and
\* leaves the store as it was, with len() = 0.
C8_PopLen ==
    [][ lastOp' = "pop" =>
            IF is_empty(data)
            THEN result' = None /\ data' = data /\ len(data') = 0
            ELSE result' # None /\ len(data') = len(data) - 1 ]_vars

\* C8 witness: two entries have been popped and a further pop, on the
\* empty queue, returned nothing.
C8_Witness ==
    /\ lastOp = "pop"
    /\ result = None
    /\ Len(out) >= 2
    /\ len(data) = 0

\* ------------------------------------------------------------------- C9

\* The index of every key insert built is len() before that insert.
SeqIsLenBefore == \A n \in 1..Len(ins) : ins[n].key.index = ins[n].before

\* C9 as stated: the index of the key insert builds is len() before the
\* insert, and the indexes built by successive inserts never go down,
\* whatever pops come between them.
C9_SeqNonDecreasing ==
    /\ SeqIsLenBefore
    /\ \A m, n \in 1..Len(ins) : m < n => ins[m].key.index <= ins[n].key.index

\* C9 amended: the index of the key insert builds is len() before the
\* insert, and the indexes built by successive inserts never go down as
\* long as no pop removes an entry between them.
C9_SeqFromLen ==
    /\ SeqIsLenBefore
    /\ \A m, n \in 1..Len(ins) :
          m < n /\ ins[m].pops = ins[n].pops
              => ins[m].key.index <= ins[n].key.index

\* C9 witness: after two inserts and two pops, a third insert built an
\* index smaller than the second insert's.
C9_Witness ==
    /\ Len(ins) = 3
    /\ ins[3].pops = 2
    /\ ins[2].pops = 0
    /\ ins[3].key.index < ins[2].key.index

\* ------------------------------------------------------------------ C10

\* C10: is_empty() is true exactly when len() = 0; a new queue is empty and
\* the queue is not empty right after an insert.
C10_EmptyIffLenZero ==
    /\ is_empty(data) <=> len(data) = 0
    /\ lastOp = "new" => is_empty(data)
    /\ lastOp = "insert" => ~is_empty(data)

\* C10 witness: an insert has just been made into a queue that pops had
\* emptied.
C10_Witness ==
    /\ lastOp = "insert"
    /\ Len(out) >= 1
    /\ len(data) = 1
    /\ ~is_empty(data)

\* ------------------------------------------------------------------ C11

\* The insert call made last.
LastInsert == ins[Len(ins)]

\* C11: when an insert has just been made into an empty queue (a new one,
\* or one that pops emptied), the peek that follows at once returns the
\* element inserted, and the pop that follows at once returns it and
\* leaves the queue empty.
C11_InsertIntoEmpty ==
    [][ lastOp = "insert" /\ LastInsert.before = 0 =>
            /\ lastOp' = "peek" => result' = Some(LastInsert.element)
            /\ lastOp' = "pop" =>
                   /\ result' = Some(LastInsert.element)
                   /\ is_empty(data') ]_vars

\* C11 witness: after two inserts and two pops had emptied the queue, a
\* third element was inserted, and the pop that followed returned it and
\* left the queue empty.
C11_Witness ==
    /\ lastOp = "pop"
    /\ Len(ins) = 3
    /\ LastInsert.before = 0
    /\ LastInsert.pops = 2
    /\ Len(out) = 3
    /\ result = Some(LastInsert.element)
    /\ is_empty(data)

\* ------------------------------------------------------------------ C12

\* The elements that pop calls repeated until the queue is empty return
\* from store d, in order.
RECURSIVE PopAll(_)
PopAll(d) ==
    IF is_empty(d) THEN <<>> ELSE <<pop_value(d)[1]>> \o PopAll(pop(d))

\* The (priority, element) pairs of the insert calls so far, in order.
InsertedPairs == [n \in 1..Len(ins) |-> <<ins[n].priority, ins[n].element>>]

\* C12: the store that from builds from a sequence of pairs is the store
\* of a new queue after the pairs were inserted one by one in order, and
\* the pops that drained that queue returned the elements that popping all
\* of from's queue returns, in the same order.
C12_FromIsInsertEach ==
    /\ phase = "fill" => from(InsertedPairs) = data
    /\ phase = "drain" /\ is_empty(data) =>
           PopAll(from(InsertedPairs)) = [n \in 1..Len(out) |-> out[n].element]

\* C12 witness: three pairs, not in priority order and two of them of equal
\* priority, were inserted one by one and then popped until empty.
C12_Witness ==
    /\ phase = "drain"
    /\ is_empty(data)
    /\ Len(ins) = 3
    /\ Len(out) = 3
    /\ ins[1].priority < ins[2].priority
    /\ ins[2].priority = ins[3].priority

\* ------------------------------------------------------------------ C13

\* The entry the n-th insert call stored is still in the store.
Live(n) ==
    /\ ins[n].key \in DOMAIN data
    /\ data[ins[n].key] = ins[n].element

\* The place of element e among the elements popping all of d returns.
PlaceIn(d, e) == CHOOSE i \in 1..Len(PopAll(d)) : PopAll(d)[i] = e

\* Insert calls m and n, m before n, gave the same priority, both entries
\* are live, and the later one was given the smaller index.
Inverted(m, n) ==
    /\ m < n
    /\ Live(m)
    /\ Live(n)
    /\ ins[m].priority = ins[n].priority
    /\ ins[n].key.index < ins[m].key.index

\* C13: whenever two live entries of equal priority are inverted (the
\* later inserted has the smaller index), popping serves the earlier
\* inserted first, the opposite of the order of an insert-only queue
\* (C4, C5); and no such pair exists before an insert follows a pop.  That
\* such a state is reachable is C13_Witness.
C13_InvertedTieBreak ==
    \A m, n \in 1..Len(ins) :
        Inverted(m, n) =>
            /\ phase = "mixed"
            /\ PlaceIn(data, ins[m].element) < PlaceIn(data, ins[n].element)

\* C13 witness: inserts interleaved with pops have left two live entries
\* of equal priority of which the later inserted has the smaller index,
\* and the pop made next has returned the earlier inserted one while the
\* later one is still queued.
C13_Witness ==
    /\ lastOp = "pop"
    /\ \E m, n \in 1..Len(ins) :
          /\ m < n
          /\ ins[m].priority = ins[n].priority
          /\ ins[n].key.index < ins[m].key.index
          /\ ins[n].pops > ins[m].pops
          /\ Live(n)
          /\ result = Some(ins[m].element)
          /\ out[Len(out)].key = ins[m].key

\* ------------------------------------------------------------------ C14

\* The elements inserted so far that no pop has returned.
NotYetPopped ==
    {ins[n].element : n \in 1..Len(ins)} \ {out[i].element : i \in 1..Len(out)}

\* C14: after any interleaving of insert and pop calls, len() is the number
\* of insert calls less the number of pop calls that returned an element,
\* and popping until empty returns every element inserted and not yet
\* popped, each exactly once.
C14_NothingLost ==
    /\ len(data) = Len(ins) - Len(out)
    /\ {PopAll(data)[i] : i \in 1..Len(PopAll(data))} = NotYetPopped
    /\ Len(PopAll(data)) = Cardinality(NotYetPopped)

\* ------------------------------------------------------------------ C15

\* C15: while no pop has been made, the indexes of the live keys are
\* exactly 0..len()-1, each the index of exactly one live key, no two
\* insert calls have built the same key, every inserted entry is live, and
\* len() is the number of insert calls.
C15_FillIndexes ==
    phase = "fill" =>
        /\ {k.index : k \in DOMAIN data} = 0..(len(data) - 1)
        /\ \A j, k \in DOMAIN data : j.index = k.index => j = k
        /\ \A m, n \in 1..Len(ins) : ins[m].key = ins[n].key => m = n
        /\ \A n \in 1..Len(ins) : Live(n)
        /\ len(data) = Len(ins)

\* C15 witness: four inserts, two of them of equal priority and not in
\* priority order, and no pop.
C15_Witness ==
    /\ phase = "fill"
    /\ Len(ins) = 4
    /\ len(data) = 4
    /\ ins[1].priority > ins[2].priority
    /\ ins[2].priority = ins[4].priority

\* ------------------------------------------------------------------ C16

\* C16: a pop call on a non-empty queue removes the entry with the
\* greatest key and no other: every other live entry is in the store
\* after the pop, under the same key and with the same element.
C16_PopRemovesOnlyMax ==
    [][ lastOp' = "pop" /\ ~is_empty(data) =>
            \E k \in DOMAIN data :
                /\ IsGreatest(data, k)
                /\ DOMAIN data' = (DOMAIN data) \ {k}
                /\ \A j \in DOMAIN data' : data'[j] = data[j] ]_vars

\* C16 witness: a pop has returned an element and left at least two
\* entries, one of them of the priority of the entry removed.
C16_Witness ==
    /\ lastOp = "pop"
    /\ result # None
    /\ len(data) >= 2
    /\ \E j \in DOMAIN data : j.priority = out[Len(out)].key.priority

====
